---- MODULE Spec2Model ----
(***************************************************************************)
(* Persistence layer of the ledger: schema initialisation (app/db.py) and  *)
(* the account / transaction repository (app/repo.py) over one SQLite      *)
(* file.  The database is modelled by its tables' rows, the AUTOINCREMENT  *)
(* counters (sqlite_sequence) and the part of the schema the code depends  *)
(* on (which tables and columns exist, whether transactions.account_id     *)
(* carries the REFERENCES clause).  The created_at / updated_at columns    *)
(* and the triggers that maintain them are left out.  On top of it come    *)
(* the form validators (app/logic.py) and the routes that write            *)
(* transactions (app/main.py).                                             *)
(*                                                                         *)
(* Text is modelled as a sequence of characters: an account name is a      *)
(* sequence over Chars, a date a sequence of digits.                       *)
(***************************************************************************)
EXTENDS Integers, Sequences, FiniteSets, TLC

VARIABLES
    schema,            \* [tables, accounts_cols, transactions_cols, fk]
    accounts,          \* rows of table accounts: [id, name, archived]
    transactions,      \* rows of table transactions
    accounts_seq,      \* sqlite_sequence entry of accounts
    transactions_seq,  \* sqlite_sequence entry of transactions
    initialized,       \* init_db has run in this history (main.py:29)
    last,              \* the last call: its name, arguments and outcome
    connections,       \* the connections the last call opened, as it left them
    inflight           \* the calls that have started and not yet ended

vars == <<schema, accounts, transactions, accounts_seq, transactions_seq,
          initialized, last, connections, inflight>>

-----------------------------------------------------------------------------
(* Bounds of the model *)

MaxAccountId == 2
MaxTxnId == 2
MaxNameLen == 2
MaxSummaryTxnId == 3
MaxAmountLen == 4
MaxInflight == 2

-----------------------------------------------------------------------------
(* Values *)

\* SQL NULL: the value of a column a row has no value for.
NULL == -1

Chars == {" ", "D", "d"}
\* The literal 'Default' of init_db.
DefaultName == <<"D">>

Directions == {"income", "expense"}

\* Outcomes of a call: a return, or the exception that left it.
OK == "ok"
NameRequired == "ValueError: account name required"
NameExists == "ValueError: account name already exists"
AccountNotFound == "ValueError: account not found"
DefaultNotDeletable == "ValueError: default account cannot be deleted"
DefaultNotArchivable == "ValueError: default account cannot be archived"
HasTransactions == "ValueError: account has transactions"
AlreadyArchived == "ValueError: account already archived"
NotArchived == "ValueError: account is not archived"
IntegrityError == "sqlite3.IntegrityError"
OperationalError == "sqlite3.OperationalError"
AmountRequired == "ValueError: amount required"
AmountInvalid == "ValueError: amount invalid"
AmountNegative == "ValueError: amount must be non-negative"
AmountDecimals == "ValueError: amount supports up to 2 decimals"
DirectionInvalid == "ValueError: direction must be income or expense"
DecimalInvalidOperation == "decimal.InvalidOperation"

\* The error kinds of the specification, as sets of outcomes.
InvalidInput ==
    {NameRequired, AmountRequired, AmountInvalid, AmountNegative,
     AmountDecimals, DirectionInvalid}
DuplicateName == {NameExists}
NotFound == {AccountNotFound}
Protected == {DefaultNotDeletable, DefaultNotArchivable}

-----------------------------------------------------------------------------
(* Helpers *)

Max(S) == CHOOSE x \in S : \A y \in S : y <= x

Ids(rows) == {r.id : r \in rows}

Row(rows, id) == CHOOSE r \in rows : r.id = id

\* str.strip(): whitespace removed at both ends.
RECURSIVE lstrip(_)
lstrip(s) == IF s # <<>> /\ Head(s) = " " THEN lstrip(Tail(s)) ELSE s

RECURSIVE rstrip(_)
rstrip(s) ==
    IF s # <<>> /\ s[Len(s)] = " " THEN rstrip(SubSeq(s, 1, Len(s) - 1)) ELSE s

strip(s) == rstrip(lstrip(s))

\* INTEGER PRIMARY KEY AUTOINCREMENT: one more than the largest rowid the
\* table has ever held.
next_rowid(rows, seq) == Max(Ids(rows) \cup {seq}) + 1

\* PRAGMA table_info(table): cols are the table's columns.
_column_exists(cols, column_name) == column_name \in cols

\* name TEXT NOT NULL UNIQUE, compared byte by byte (BINARY collation).
name_taken(rows, name) == \E r \in rows : r.name = name

-----------------------------------------------------------------------------
(* The database file before the first init_db *)

AccountsColsLegacy == {"id", "name"}
AccountsColsCurrent == {"id", "name", "archived"}
TransactionsColsLegacy ==
    {"id", "date", "direction", "amount_cents", "category", "note"}
TransactionsColsCurrent == TransactionsColsLegacy \cup {"account_id"}

\* Dates are text, written here as their digits; categories and notes are
\* text too, written as the positions of their letters in the alphabet, a
\* blank being Blank.
Blank == 0
Dates == {<<0, 1>>}
Categories == {<<6>>}
Notes == {<<14>>}
DirectionInputs == {"expense", "Income"}
AmountInputs == {-1, 5}
Names == UNION {[1..n -> Chars] : n \in 0..MaxNameLen}

\* Rows an accounts table may hold when the program starts: ids and names
\* unique (PRIMARY KEY, UNIQUE), names as create_account stores them.
StartAccounts(archived_values) ==
    {rows \in SUBSET [id : 1..2, name : {DefaultName, <<"d">>},
                      archived : archived_values] :
        /\ \A r1, r2 \in rows : (r1.id = r2.id \/ r1.name = r2.name) => r1 = r2
        /\ \A r \in rows : r.id = 1 => r.archived # 1}

\* Rows a transactions table may hold when the program starts.
StartTransactions(account_ids) ==
    {rows \in SUBSET [id : {1}, account_id : account_ids, date : {<<0, 1>>},
                      direction : {"expense"}, amount_cents : {5},
                      category : Categories, note : Notes] :
        Cardinality(rows) <= 1}

NoFile ==
    {[schema |-> [tables |-> {}, accounts_cols |-> {},
                  transactions_cols |-> {}, fk |-> FALSE],
      accounts |-> {}, transactions |-> {}]}

\* Layouts of older versions: accounts without the archived column,
\* transactions without the account_id column (tests/test_db_migration.py).
LegacyFiles ==
    {[schema |-> [tables |-> tables,
                  accounts_cols |->
                      IF "accounts" \in tables THEN AccountsColsLegacy ELSE {},
                  transactions_cols |->
                      IF "transactions" \in tables
                      THEN TransactionsColsLegacy ELSE {},
                  fk |-> FALSE],
      accounts |-> a, transactions |-> t] :
        tables \in (SUBSET {"accounts", "transactions"}) \ {{}},
        a \in StartAccounts({NULL}), t \in StartTransactions({NULL})}

\* The layout repo.py is written for: accounts with the archived column,
\* transactions with account_id REFERENCES accounts(id).
CurrentFiles ==
    {[schema |-> [tables |-> {"accounts", "transactions"},
                  accounts_cols |-> AccountsColsCurrent,
                  transactions_cols |-> TransactionsColsCurrent,
                  fk |-> TRUE],
      accounts |-> a, transactions |-> t] :
        a \in StartAccounts({0, 1}), t \in StartTransactions(1..2)}

StartFiles ==
    {f \in NoFile \cup LegacyFiles \cup CurrentFiles :
        /\ "accounts" \notin f.schema.tables => f.accounts = {}
        /\ "transactions" \notin f.schema.tables => f.transactions = {}
        /\ f.schema.fk => \A t \in f.transactions : t.account_id \in Ids(f.accounts)}

NoCall ==
    [op |-> "none", account_id |-> NULL, txn_id |-> NULL, result |-> OK,
     ret |-> NULL]

Init ==
    \E f \in StartFiles :
        /\ schema = f.schema
        /\ accounts = f.accounts
        /\ transactions = f.transactions
        /\ accounts_seq = Max(Ids(f.accounts) \cup {0})
        /\ transactions_seq = Max(Ids(f.transactions) \cup {0})
        /\ initialized = FALSE
        /\ last = NoCall
        /\ connections = {}
        /\ inflight = {}

-----------------------------------------------------------------------------
(* app/db.py: connect, init_db *)

\* sqlite3.connect(...): an open connection with no transaction begun.
connect == [closed |-> FALSE, in_transaction |-> FALSE, ended |-> "none"]

\* Leaving `with connect(db_path) as conn:`: the connection's __exit__
\* commits when the block ended normally and rolls back when it raised; it
\* does not close the connection, and no statement of the program does.
with_exit(conn, result) ==
    [conn EXCEPT !.in_transaction = FALSE,
                 !.ended = IF result = OK THEN "commit" ELSE "rollback"]

\* INSERT OR IGNORE INTO accounts(id, name) VALUES (1, 'Default'): skipped
\* when the row would break PRIMARY KEY(id) or UNIQUE(name).
seed_conflict(rows) == \E r \in rows : r.id = 1 \/ r.name = DefaultName

\* The value a new accounts row gets for archived, which no INSERT of the
\* program names: the column's default (archived INTEGER NOT NULL DEFAULT 0)
\* where the table has the column, no value where it has not.
archived_default(cols) == IF "archived" \in cols THEN 0 ELSE NULL

seed_default(rows, cols) ==
    IF seed_conflict(rows) THEN rows
    ELSE rows \cup {[id |-> 1, name |-> DefaultName,
                     archived |-> archived_default(cols)]}

\* The column added with DEFAULT 0 instead of DEFAULT 1.
add_account_id_column_default_0(rows) ==
    {[t EXCEPT !.account_id = 0] : t \in rows}

\* ALTER TABLE transactions ADD COLUMN account_id INTEGER NOT NULL DEFAULT 1
add_account_id_column(rows) == {[t EXCEPT !.account_id = 1] : t \in rows}

\* UPDATE transactions SET account_id = 1 WHERE account_id IS NULL
backfill_account_id(rows) ==
    {IF t.account_id = NULL THEN [t EXCEPT !.account_id = 1] ELSE t : t \in rows}

init_db ==
    LET had_accounts == "accounts" \in schema.tables
        had_transactions == "transactions" \in schema.tables
        \* CREATE TABLE IF NOT EXISTS accounts (id, name, created_at, updated_at)
        accounts_cols == IF had_accounts THEN schema.accounts_cols
                         ELSE AccountsColsLegacy
        seeded == seed_default(accounts, accounts_cols)
        \* CREATE TABLE IF NOT EXISTS transactions (..., account_id ... REFERENCES)
        cols3 == IF had_transactions THEN schema.transactions_cols
                 ELSE TransactionsColsCurrent
        fk == IF had_transactions THEN schema.fk ELSE TRUE
        altered == IF ~_column_exists(cols3, "account_id")
                   THEN add_account_id_column(transactions) ELSE transactions
    IN  [schema |-> [tables |-> {"accounts", "transactions"},
                     accounts_cols |-> accounts_cols,
                     transactions_cols |-> cols3 \cup {"account_id"},
                     fk |-> fk],
         accounts |-> seeded,
         accounts_seq |-> IF seeded = accounts THEN accounts_seq
                          ELSE Max({accounts_seq, 1}),
         transactions |-> backfill_account_id(altered)]

InitDb ==
    LET o == init_db
    IN  /\ schema' = o.schema
        /\ accounts' = o.accounts
        /\ accounts_seq' = o.accounts_seq
        /\ transactions' = o.transactions
        /\ initialized' = TRUE
        /\ last' = [NoCall EXCEPT !.op = "init_db"]
        /\ connections' = {with_exit(connect, OK)}
        /\ UNCHANGED <<transactions_seq, inflight>>

-----------------------------------------------------------------------------
(* app/repo.py.  Each function runs in one connection used as a context    *)
(* manager: its statements are committed when it returns and rolled back   *)
(* when it raises, so a call that raises leaves the tables as they were.   *)

Return(ret, accs, aseq, txns, tseq) ==
    [result |-> OK, ret |-> ret, accounts |-> accs, accounts_seq |-> aseq,
     transactions |-> txns, transactions_seq |-> tseq,
     connections |-> {with_exit(connect, OK)}]

Raise(error) ==
    [result |-> error, ret |-> NULL, accounts |-> accounts,
     accounts_seq |-> accounts_seq, transactions |-> transactions,
     transactions_seq |-> transactions_seq,
     connections |-> {with_exit(connect, error)}]

\* An exception raised before the function's `with connect(...)`.
RaiseBeforeConnect(error) == [Raise(error) EXCEPT !.connections = {}]

\* create_account storing the name as given, without strip().
create_account_untrimmed(name) ==
    LET id == next_rowid(accounts, accounts_seq)
    IN  IF name = <<>> THEN RaiseBeforeConnect(NameRequired)
        ELSE IF name_taken(accounts, name) THEN Raise(NameExists)
        ELSE Return(id,
                    accounts \cup
                        {[id |-> id, name |-> name,
                          archived |-> archived_default(schema.accounts_cols)]},
                    id, transactions, transactions_seq)

create_account(name) ==
    LET account_name == strip(name)
        id == next_rowid(accounts, accounts_seq)
    IN  IF account_name = <<>> THEN RaiseBeforeConnect(NameRequired)
        ELSE IF name_taken(accounts, account_name) THEN Raise(NameExists)
        ELSE Return(id,
                    accounts \cup
                        {[id |-> id, name |-> account_name,
                          archived |-> archived_default(schema.accounts_cols)]},
                    id, transactions, transactions_seq)

\* rename_account looking the name up among all accounts, the renamed one
\* included.
rename_account_rejecting_own_name(account_id, name) ==
    LET account_name == strip(name)
    IN  IF account_name = <<>> THEN RaiseBeforeConnect(NameRequired)
        ELSE IF account_id \notin Ids(accounts) THEN Raise(AccountNotFound)
        ELSE IF name_taken(accounts, account_name) THEN Raise(NameExists)
        ELSE Return(NULL,
                    {IF r.id = account_id THEN [r EXCEPT !.name = account_name]
                     ELSE r : r \in accounts},
                    accounts_seq, transactions, transactions_seq)

rename_account(account_id, name) ==
    LET account_name == strip(name)
    IN  IF account_name = <<>> THEN RaiseBeforeConnect(NameRequired)
        ELSE IF account_id \notin Ids(accounts) THEN Raise(AccountNotFound)
        ELSE IF name_taken({r \in accounts : r.id # account_id}, account_name)
             THEN Raise(NameExists)
        ELSE Return(NULL,
                    {IF r.id = account_id THEN [r EXCEPT !.name = account_name]
                     ELSE r : r \in accounts},
                    accounts_seq, transactions, transactions_seq)

\* account_id ... REFERENCES accounts(id) ON DELETE RESTRICT, enforced by
\* PRAGMA foreign_keys = ON where the table was created with the clause.
fk_restricts_delete(account_id) ==
    schema.fk /\ \E t \in transactions : t.account_id = account_id

\* delete_account without its guard for the default account.
delete_account_unguarded(account_id) ==
    IF account_id \notin Ids(accounts) THEN Raise(AccountNotFound)
    ELSE IF Cardinality({t \in transactions : t.account_id = account_id}) > 0
         THEN Raise(HasTransactions)
    ELSE IF fk_restricts_delete(account_id) THEN Raise(IntegrityError)
    ELSE Return(NULL, {r \in accounts : r.id # account_id}, accounts_seq,
                transactions, transactions_seq)

\* delete_account without the count of the account's transactions.
delete_account_uncounted(account_id) ==
    IF account_id = 1 THEN RaiseBeforeConnect(DefaultNotDeletable)
    ELSE IF account_id \notin Ids(accounts) THEN Raise(AccountNotFound)
    ELSE IF fk_restricts_delete(account_id) THEN Raise(IntegrityError)
    ELSE Return(NULL, {r \in accounts : r.id # account_id}, accounts_seq,
                transactions, transactions_seq)

delete_account(account_id) ==
    IF account_id = 1 THEN RaiseBeforeConnect(DefaultNotDeletable)
    ELSE IF account_id \notin Ids(accounts) THEN Raise(AccountNotFound)
    ELSE IF Cardinality({t \in transactions : t.account_id = account_id}) > 0
         THEN Raise(HasTransactions)
    ELSE IF fk_restricts_delete(account_id) THEN Raise(IntegrityError)
    ELSE Return(NULL, {r \in accounts : r.id # account_id}, accounts_seq,
                transactions, transactions_seq)

archive_account(account_id) ==
    IF account_id = 1 THEN RaiseBeforeConnect(DefaultNotArchivable)
    ELSE IF ~_column_exists(schema.accounts_cols, "archived")
         THEN Raise(OperationalError)
    ELSE IF account_id \notin Ids(accounts) THEN Raise(AccountNotFound)
    ELSE IF Row(accounts, account_id).archived = 1 THEN Raise(AlreadyArchived)
    ELSE Return(NULL,
                {IF r.id = account_id THEN [r EXCEPT !.archived = 1] ELSE r :
                    r \in accounts},
                accounts_seq, transactions, transactions_seq)

restore_account(account_id) ==
    IF ~_column_exists(schema.accounts_cols, "archived")
    THEN Raise(OperationalError)
    ELSE IF account_id \notin Ids(accounts) THEN Raise(AccountNotFound)
    ELSE IF Row(accounts, account_id).archived = 0 THEN Raise(NotArchived)
    ELSE Return(NULL,
                {IF r.id = account_id THEN [r EXCEPT !.archived = 0] ELSE r :
                    r \in accounts},
                accounts_seq, transactions, transactions_seq)

\* The constraints without CHECK(direction IN ('income','expense')).
txn_constraints_hold_any_direction(account_id, direction, amount_cents) ==
    /\ amount_cents >= 0
    /\ schema.fk => account_id \in Ids(accounts)

\* CHECK(direction IN ('income','expense')), CHECK(amount_cents >= 0) and,
\* where declared, the foreign key of account_id.
txn_constraints_hold(account_id, direction, amount_cents) ==
    /\ direction \in Directions
    /\ amount_cents >= 0
    /\ schema.fk => account_id \in Ids(accounts)

create_txn(account_id, date_str, direction, amount_cents, category, note) ==
    LET id == next_rowid(transactions, transactions_seq)
    IN  IF ~txn_constraints_hold(account_id, direction, amount_cents)
        THEN Raise(IntegrityError)
        ELSE Return(id, accounts, accounts_seq,
                    transactions \cup
                        {[id |-> id, account_id |-> account_id,
                          date |-> date_str, direction |-> direction,
                          amount_cents |-> amount_cents,
                          category |-> category, note |-> note]},
                    id)

\* delete_txn with WHERE id = ? alone.
delete_txn_any_account(txn_id, account_id) ==
    Return(NULL, accounts, accounts_seq,
           {t \in transactions : t.id # txn_id}, transactions_seq)

delete_txn(txn_id, account_id) ==
    Return(NULL, accounts, accounts_seq,
           {t \in transactions : ~(t.id = txn_id /\ t.account_id = account_id)},
           transactions_seq)

\* Comparison of two TEXT values (byte by byte, a prefix first).
RECURSIVE text_leq(_, _)
text_leq(a, b) ==
    IF a = <<>> THEN TRUE
    ELSE IF b = <<>> THEN FALSE
    ELSE IF Head(a) # Head(b) THEN Head(a) < Head(b)
    ELSE text_leq(Tail(a), Tail(b))

\* The range without its last day: date < ? in place of date <= ?.
in_range_end_excluded(account_id, start, end) ==
    {t \in transactions :
        /\ t.account_id = account_id
        /\ text_leq(start, t.date)
        /\ text_leq(t.date, end)
        /\ t.date # end}

\* WHERE account_id = ? AND date >= ? AND date <= ?
in_range(account_id, start, end) ==
    {t \in transactions :
        /\ t.account_id = account_id
        /\ text_leq(start, t.date)
        /\ text_leq(t.date, end)}

\* ORDER BY date DESC, id DESC: t1 comes before t2.
txn_before(t1, t2) ==
    IF t1.date # t2.date THEN text_leq(t2.date, t1.date) ELSE t1.id > t2.id

RECURSIVE order_txns(_)
order_txns(rows) ==
    IF rows = {} THEN <<>>
    ELSE LET first == CHOOSE t \in rows :
                          \A u \in rows \ {t} : txn_before(t, u)
         IN  <<first>> \o order_txns(rows \ {first})

list_txns(account_id, start, end) ==
    order_txns(in_range(account_id, start, end))

\* COALESCE(SUM(amount_cents), 0) over rows.
RECURSIVE sum_amount_cents(_)
sum_amount_cents(rows) ==
    IF rows = {} THEN 0
    ELSE LET t == CHOOSE r \in rows : TRUE
         IN  t.amount_cents + sum_amount_cents(rows \ {t})

\* ORDER BY category ASC alone.
group_before_by_category(g1, g2) == text_leq(g1.category, g2.category)

\* ORDER BY amount_cents DESC, category ASC: g1 comes before g2.
group_before(g1, g2) ==
    IF g1.amount_cents # g2.amount_cents THEN g1.amount_cents > g2.amount_cents
    ELSE text_leq(g1.category, g2.category)

RECURSIVE order_groups(_)
order_groups(groups) ==
    IF groups = {} THEN <<>>
    ELSE LET first == CHOOSE g \in groups :
                          \A h \in groups \ {g} : group_before(g, h)
         IN  <<first>> \o order_groups(groups \ {first})

get_summary(account_id, start, end) ==
    LET rows == in_range(account_id, start, end)
        expenses == {t \in rows : t.direction = "expense"}
        groups == {[category |-> c,
                    amount_cents |->
                        sum_amount_cents({t \in expenses : t.category = c})] :
                   c \in {t.category : t \in expenses}}
    IN  [income_cents |->
             sum_amount_cents({t \in rows : t.direction = "income"}),
         expense_cents |-> sum_amount_cents(expenses),
         by_category |-> order_groups(groups)]

-----------------------------------------------------------------------------
(* app/logic.py.  An amount is text over AmountChars: blank, sign, point,   *)
(* two digits, and the letters that spell NaN and text that is no number.  *)

AmountChars == {" ", "-", ".", "0", "1", "N", "a"}
DigitChars == {"0", "1"}
AmountTexts == UNION {[1..n -> AmountChars] : n \in 0..MaxAmountLen}
DirectionTexts == {"income", "expense", "Income", "in", "out", ""}

digit(c) == IF c = "0" THEN 0 ELSE 1

\* The integer a sequence of digits writes (0 for none).
RECURSIVE int_of(_)
int_of(digits) ==
    IF digits = <<>> THEN 0
    ELSE 10 * int_of(SubSeq(digits, 1, Len(digits) - 1))
             + digit(digits[Len(digits)])

RECURSIVE pow10(_)
pow10(n) == IF n = 0 THEN 1 ELSE 10 * pow10(n - 1)

lower(c) == IF c = "N" THEN "n" ELSE c

\* decimal.Decimal(s): surrounding whitespace dropped, an optional sign, then
\* digits with at most one point, or NaN (in any case) with optional
\* diagnostic digits; anything else is a conversion syntax error.  A finite
\* value is (-1)^sign * int * 10^exp.
Decimal(s) ==
    LET t == strip(s)
        signed == t # <<>> /\ Head(t) = "-"
        body == IF signed THEN Tail(t) ELSE t
        points == {k \in 1..Len(body) : body[k] = "."}
        digits == SelectSeq(body, LAMBDA c : c \in DigitChars)
        is_nan ==
            /\ Len(body) >= 3
            /\ <<lower(body[1]), lower(body[2]), lower(body[3])>>
                  = <<"n", "a", "n">>
            /\ \A k \in 4..Len(body) : body[k] \in DigitChars
        is_number ==
            /\ \A k \in 1..Len(body) : body[k] \in DigitChars \cup {"."}
            /\ Cardinality(points) <= 1
            /\ digits # <<>>
        point == IF points = {} THEN Len(body) ELSE CHOOSE k \in points : TRUE
    IN  IF is_nan
        THEN [kind |-> "NaN", sign |-> 0, int |-> 0, exp |-> 0]
        ELSE IF is_number
        THEN [kind |-> "finite", sign |-> IF signed THEN 1 ELSE 0,
              int |-> int_of(digits), exp |-> point - Len(body)]
        ELSE [kind |-> "InvalidOperation", sign |-> 0, int |-> 0, exp |-> 0]

\* d.quantize(Decimal("1"), rounding=ROUND_HALF_UP) of a value d >= 0: the
\* nearest integer, a half going up.
quantize(d) ==
    IF d.exp >= 0 THEN [d EXCEPT !.int = d.int * pow10(d.exp), !.exp = 0]
    ELSE [d EXCEPT !.int = (d.int + 5 * pow10(-d.exp - 1)) \div pow10(-d.exp),
                   !.exp = 0]

\* d1 = d2 for finite values of one sign with d1.exp <= d2.exp.
decimal_eq(d1, d2) == d1.int = d2.int * pow10(d2.exp - d1.exp)

parse_amount_to_cents(s) ==
    LET d == Decimal(s)
        \* d * 100
        d100 == [d EXCEPT !.int = d.int * 100]
        cents == quantize(d100)
    IN  IF strip(s) = <<>> THEN [result |-> AmountRequired, ret |-> NULL]
        ELSE IF d.kind = "InvalidOperation"
             THEN [result |-> AmountInvalid, ret |-> NULL]
        \* d < 0 with d a NaN signals InvalidOperation, which nothing catches
        ELSE IF d.kind = "NaN"
             THEN [result |-> DecimalInvalidOperation, ret |-> NULL]
        ELSE IF d.sign = 1 /\ d.int # 0
             THEN [result |-> AmountNegative, ret |-> NULL]
        ELSE IF ~decimal_eq(d100, cents)
             THEN [result |-> AmountDecimals, ret |-> NULL]
        ELSE [result |-> OK, ret |-> cents.int]

validate_direction(s) ==
    IF s \notin {"income", "expense"}
    THEN [result |-> DirectionInvalid, ret |-> NULL]
    ELSE [result |-> OK, ret |-> s]

-----------------------------------------------------------------------------
(* app/main.py: the routes that write transactions.  A request ends in a   *)
(* response (OK) or in the exception that left the handler: an             *)
(* HTTPException, or an error of the layers below that nothing catches.    *)

ArchivedReadOnly == "HTTPException 400: archived account is read-only"
AccountNotFound404 == "HTTPException 404: account not found"

\* HTTPException(status_code=400, detail=str(exc)) for a ValueError exc.
bad_request(error) ==
    CASE error = AmountRequired -> "HTTPException 400: amount required"
      [] error = AmountInvalid -> "HTTPException 400: amount invalid"
      [] error = AmountNegative
            -> "HTTPException 400: amount must be non-negative"
      [] error = AmountDecimals
            -> "HTTPException 400: amount supports up to 2 decimals"
      [] error = DirectionInvalid
            -> "HTTPException 400: direction must be income or expense"
      [] OTHER -> error

\* str.strip() of a text written as letter positions.
RECURSIVE lstrip_text(_)
lstrip_text(s) ==
    IF s # <<>> /\ Head(s) = Blank THEN lstrip_text(Tail(s)) ELSE s

RECURSIVE rstrip_text(_)
rstrip_text(s) ==
    IF s # <<>> /\ s[Len(s)] = Blank
    THEN rstrip_text(SubSeq(s, 1, Len(s) - 1)) ELSE s

strip_text(s) == rstrip_text(lstrip_text(s))

\* repo.get_account: SELECT id, name, archived FROM accounts WHERE id = ?,
\* fetchone() (rows is empty for None).
get_account(account_id) ==
    IF ~_column_exists(schema.accounts_cols, "archived")
    THEN [result |-> OperationalError, rows |-> {}]
    ELSE [result |-> OK, rows |-> {r \in accounts : r.id = account_id}]

_resolve_account_id(account_id, show_archived) ==
    LET candidate == IF account_id = NULL \/ account_id = 0 THEN 1
                     ELSE account_id
        account == get_account(candidate)
    IN  IF candidate < 1 THEN [result |-> OK, ret |-> 1]
        ELSE IF account.result # OK THEN [result |-> account.result, ret |-> NULL]
        ELSE IF account.rows = {} THEN [result |-> OK, ret |-> 1]
        ELSE IF ~show_archived /\ \E r \in account.rows : r.archived = 1
             THEN [result |-> OK, ret |-> 1]
        ELSE [result |-> OK, ret |-> candidate]

\* POST /transactions without the check of the archived flag.
create_transaction_unchecked(date, direction, amount, category, note, account_id) ==
    LET valid_direction == validate_direction(direction)
        amount_cents == parse_amount_to_cents(amount)
        resolved_account_id == _resolve_account_id(account_id, TRUE)
        selected_account == get_account(resolved_account_id.ret)
    IN  IF valid_direction.result # OK
        THEN RaiseBeforeConnect(bad_request(valid_direction.result))
        ELSE IF amount_cents.result # OK
        THEN RaiseBeforeConnect(bad_request(amount_cents.result))
        ELSE IF resolved_account_id.result # OK
        THEN Raise(resolved_account_id.result)
        ELSE IF selected_account.result # OK
        THEN Raise(selected_account.result)
        ELSE IF selected_account.rows = {} THEN Raise(AccountNotFound404)
        ELSE create_txn(resolved_account_id.ret, date, valid_direction.ret,
                        amount_cents.ret, strip_text(category),
                        strip_text(note))

\* POST /transactions
create_transaction(date, direction, amount, category, note, account_id) ==
    LET valid_direction == validate_direction(direction)
        amount_cents == parse_amount_to_cents(amount)
        resolved_account_id == _resolve_account_id(account_id, TRUE)
        selected_account == get_account(resolved_account_id.ret)
    IN  IF valid_direction.result # OK
        THEN RaiseBeforeConnect(bad_request(valid_direction.result))
        ELSE IF amount_cents.result # OK
        THEN RaiseBeforeConnect(bad_request(amount_cents.result))
        ELSE IF resolved_account_id.result # OK
        THEN Raise(resolved_account_id.result)
        ELSE IF selected_account.result # OK
        THEN Raise(selected_account.result)
        ELSE IF selected_account.rows = {} THEN Raise(AccountNotFound404)
        ELSE IF \E r \in selected_account.rows : r.archived = 1
        THEN Raise(ArchivedReadOnly)
        ELSE create_txn(resolved_account_id.ret, date, valid_direction.ret,
                        amount_cents.ret, strip_text(category),
                        strip_text(note))

\* POST /transactions/{txn_id}/delete
delete_transaction(txn_id, account_id) ==
    LET resolved_account_id == _resolve_account_id(account_id, TRUE)
        selected_account == get_account(resolved_account_id.ret)
    IN  IF resolved_account_id.result # OK
        THEN Raise(resolved_account_id.result)
        ELSE IF selected_account.result # OK
        THEN Raise(selected_account.result)
        ELSE IF selected_account.rows = {} THEN Raise(AccountNotFound404)
        ELSE IF \E r \in selected_account.rows : r.archived = 1
        THEN Raise(ArchivedReadOnly)
        ELSE delete_txn(txn_id, resolved_account_id.ret)

-----------------------------------------------------------------------------
(* Calls *)

AccountIds == 1..MaxAccountId
TxnIds == 1..MaxTxnId

\* A call ends with outcome o.
Ends(op, account_id, txn_id, o) ==
    /\ accounts' = o.accounts
    /\ accounts_seq' = o.accounts_seq
    /\ transactions' = o.transactions
    /\ transactions_seq' = o.transactions_seq
    /\ last' = [op |-> op, account_id |-> account_id, txn_id |-> txn_id,
                result |-> o.result, ret |-> o.ret]
    /\ connections' = o.connections
    /\ UNCHANGED <<schema, initialized>>

\* A call that runs from its start to its end with no other call between
\* its statements.
Call(op, account_id, txn_id, o) ==
    /\ Ends(op, account_id, txn_id, o)
    /\ UNCHANGED inflight

CreateAccountFrom(names) ==
    /\ initialized
    /\ \E name \in names :
        LET o == create_account(name)
        IN  /\ o.result = OK => o.ret <= MaxAccountId
            /\ Call("create_account", NULL, NULL, o)

CreateAccount == CreateAccountFrom(Names)

RenameAccount ==
    /\ initialized
    /\ \E account_id \in AccountIds, name \in Names :
        Call("rename_account", account_id, NULL,
             rename_account(account_id, name))

DeleteAccount ==
    /\ initialized
    /\ \E account_id \in AccountIds :
        Call("delete_account", account_id, NULL, delete_account(account_id))

ArchiveAccount ==
    /\ initialized
    /\ \E account_id \in AccountIds :
        Call("archive_account", account_id, NULL, archive_account(account_id))

RestoreAccount ==
    /\ initialized
    /\ \E account_id \in AccountIds :
        Call("restore_account", account_id, NULL, restore_account(account_id))

CreateTxnUpTo(max_id, dates, directions, amounts, categories) ==
    /\ initialized
    /\ \E account_id \in AccountIds, date_str \in dates,
          direction \in directions, amount_cents \in amounts,
          category \in categories, note \in Notes :
        LET o == create_txn(account_id, date_str, direction, amount_cents,
                            category, note)
        IN  /\ o.result = OK => o.ret <= max_id
            /\ Call("create_txn", account_id, NULL, o)

CreateTxnFrom(dates, directions, amounts, categories) ==
    CreateTxnUpTo(MaxTxnId, dates, directions, amounts, categories)

CreateTxn == CreateTxnFrom(Dates, DirectionInputs, AmountInputs, Categories)

DeleteTxn ==
    /\ initialized
    /\ \E txn_id \in TxnIds, account_id \in AccountIds :
        Call("delete_txn", account_id, txn_id, delete_txn(txn_id, account_id))

Next ==
    \/ InitDb
    \/ CreateAccount
    \/ RenameAccount
    \/ DeleteAccount
    \/ ArchiveAccount
    \/ RestoreAccount
    \/ CreateTxn
    \/ DeleteTxn

Spec == Init /\ [][Next]_vars

\* The ledger of a database created by init_db or migrated from a legacy
\* transactions table: few accounts, transactions of both directions on
\* several dates.
LedgerNames == {<<"d">>}
LedgerDates == {<<0, 1>>, <<1, 0>>}
LedgerAmounts == {3, 5}
RangeBounds == LedgerDates \cup {<<0, 0>>, <<1, 1>>}

InitLedger ==
    /\ Init
    /\ "accounts" \notin schema.tables

LedgerCreateAccount == CreateAccountFrom(LedgerNames)

LedgerCreateTxn ==
    CreateTxnFrom(LedgerDates, Directions, LedgerAmounts, Categories)

NextLedger ==
    \/ InitDb
    \/ LedgerCreateAccount
    \/ LedgerCreateTxn
    \/ DeleteTxn
    \/ DeleteAccount

SpecLedger == InitLedger /\ [][NextLedger]_vars

\* The ledger get_summary reads in a database init_db created from no file:
\* up to MaxSummaryTxnId transactions of the default account in two
\* categories, so that a category's total is the sum of several rows while
\* another category has one row.
SummaryCategories == {<<6>>, <<18>>}

InitSummary ==
    /\ Init
    /\ schema.tables = {}

SummaryCreateTxn ==
    CreateTxnUpTo(MaxSummaryTxnId, LedgerDates, Directions, LedgerAmounts,
                  SummaryCategories)

NextSummary ==
    \/ InitDb
    \/ SummaryCreateTxn

SpecSummary == InitSummary /\ [][NextSummary]_vars

\* The functions of logic.py, applied to the text of a form field; they
\* read and write no table.  The field's text is drawn at the start.
FormField(field, text) ==
    [op |-> "form", field |-> field, text |-> text, result |-> OK,
     ret |-> NULL]

InitLogic ==
    /\ schema = (CHOOSE f \in NoFile : TRUE).schema
    /\ accounts = {}
    /\ transactions = {}
    /\ accounts_seq = 0
    /\ transactions_seq = 0
    /\ initialized = FALSE
    /\ connections = {}
    /\ inflight = {}
    /\ \/ \E s \in AmountTexts : last = FormField("amount", s)
       \/ \E s \in DirectionTexts : last = FormField("direction", s)

LogicCall(op, o) ==
    /\ last' = [last EXCEPT !.op = op, !.result = o.result, !.ret = o.ret]
    /\ UNCHANGED <<schema, accounts, transactions, accounts_seq,
                   transactions_seq, initialized, connections, inflight>>

ParseAmountToCents ==
    /\ last.op = "form"
    /\ last.field = "amount"
    /\ LogicCall("parse_amount_to_cents", parse_amount_to_cents(last.text))

ValidateDirection ==
    /\ last.op = "form"
    /\ last.field = "direction"
    /\ LogicCall("validate_direction", validate_direction(last.text))

NextLogic ==
    \/ ParseAmountToCents
    \/ ValidateDirection

SpecLogic == InitLogic /\ [][NextLogic]_vars

\* The requests of the transaction routes, next to the account operations
\* that decide what they meet.  A form names an account by any integer.
RouteAccountIds == {-2, 0} \cup AccountIds
RouteDirections == {"expense", "Income"}
RouteAmounts == {<<"1">>, <<"a">>, <<"N", "a", "N">>}
RouteCategories == {<<6>>, <<Blank, 6>>}

CreateTransaction ==
    /\ initialized
    /\ \E date \in Dates, direction \in RouteDirections,
          amount \in RouteAmounts, category \in RouteCategories,
          note \in Notes, account_id \in RouteAccountIds :
        LET o == create_transaction(date, direction, amount, category, note,
                                    account_id)
        IN  /\ o.result = OK => o.ret <= MaxTxnId
            /\ Call("create_transaction", account_id, NULL, o)

DeleteTransaction ==
    /\ initialized
    /\ \E txn_id \in TxnIds, account_id \in RouteAccountIds :
        Call("delete_transaction", account_id, txn_id,
             delete_transaction(txn_id, account_id))

NextRoutes ==
    \/ InitDb
    \/ LedgerCreateAccount
    \/ ArchiveAccount
    \/ RestoreAccount
    \/ CreateTransaction
    \/ DeleteTransaction

SpecRoutes == Init /\ [][NextRoutes]_vars

\* Requests are served by the threads of a pool, each call on a connection
\* of its own: a call of several statements runs statement by statement,
\* and the statements of other calls come between them.  create_txn and
\* delete_txn are one statement each; delete_account is three, the first
\* two read outside any transaction and the third begins the transaction
\* that the end of the call commits.
Continues(c, pc) ==
    /\ inflight' = (inflight \ {c}) \cup {[c EXCEPT !.pc = pc]}
    /\ UNCHANGED <<schema, accounts, transactions, accounts_seq,
                   transactions_seq, initialized, last, connections>>

\* SELECT id FROM accounts WHERE id = ? (after the guard for account 1).
DeleteAccountSelect ==
    /\ initialized
    /\ \E account_id \in AccountIds :
        IF account_id = 1 \/ account_id \notin Ids(accounts)
        THEN Call("delete_account", account_id, NULL,
                  delete_account(account_id))
        ELSE /\ \E call \in 1..MaxInflight :
                  /\ \A c \in inflight : c.call # call
                  /\ inflight' =
                        inflight \cup
                            {[call |-> call, op |-> "delete_account",
                              account_id |-> account_id, pc |-> "selected"]}
             /\ UNCHANGED <<schema, accounts, transactions, accounts_seq,
                            transactions_seq, initialized, last,
                            connections>>

\* SELECT COUNT(*) AS c FROM transactions WHERE account_id = ?
DeleteAccountCount ==
    \E c \in inflight :
        /\ c.pc = "selected"
        /\ IF Cardinality({t \in transactions :
                              t.account_id = c.account_id}) > 0
           THEN /\ Ends(c.op, c.account_id, NULL, Raise(HasTransactions))
                /\ inflight' = inflight \ {c}
           ELSE Continues(c, "counted")

\* DELETE FROM accounts WHERE id = ?, and the end of the call.
DeleteAccountDelete ==
    \E c \in inflight :
        /\ c.pc = "counted"
        /\ Ends(c.op, c.account_id, NULL,
                IF fk_restricts_delete(c.account_id)
                THEN Raise(IntegrityError)
                ELSE Return(NULL, {r \in accounts : r.id # c.account_id},
                            accounts_seq, transactions, transactions_seq))
        /\ inflight' = inflight \ {c}

ConcurrentCreateTxn == CreateTxnFrom(Dates, Directions, {5}, Categories)

NextConcurrent ==
    \/ InitDb
    \/ LedgerCreateAccount
    \/ ConcurrentCreateTxn
    \/ DeleteTxn
    \/ DeleteAccountSelect
    \/ DeleteAccountCount
    \/ DeleteAccountDelete

SpecConcurrent == InitLedger /\ [][NextConcurrent]_vars

TypeOK ==
    /\ initialized \in BOOLEAN
    /\ \A r \in accounts : r.id \in 1..MaxAccountId /\ r.archived \in {NULL, 0, 1}
    /\ \A t \in transactions : t.id \in 1..MaxTxnId

-----------------------------------------------------------------------------
(* Claims *)

\* The tables are as they were before the step.
TablesUnchanged == accounts' = accounts /\ transactions' = transactions

DefaultPresent(rows) == \E r \in rows : r.id = 1 /\ r.archived # 1

\* C1: once init_db has run and account 1 exists and is not archived, every
\* later call (account and transaction operations, init_db again) leaves
\* account 1 in place and not archived; archive_account(1) and
\* delete_account(1) fail with the Protected error and change no row.
C1_DefaultAccountProtected ==
    [][/\ (initialized /\ DefaultPresent(accounts)) => DefaultPresent(accounts')
       /\ (last'.op \in {"archive_account", "delete_account"}
             /\ last'.account_id = 1)
          => (last'.result \in Protected /\ TablesUnchanged)]_vars

\* C1 witness: delete_account(1) or archive_account(1) has just been refused
\* on a database that holds account 1 and another account.
C1_Witness ==
    /\ initialized
    /\ last.op \in {"archive_account", "delete_account"}
    /\ last.account_id = 1
    /\ last.result \in Protected
    /\ DefaultPresent(accounts)
    /\ Cardinality(accounts) > 1

\* C2: init_db on a database whose accounts table has no archived column, or
\* that has no accounts table, leaves the table with an archived column and
\* every account row with archived = 0.
C2_ArchivedColumnAdded ==
    [][(last'.op = "init_db" /\ "archived" \notin schema.accounts_cols)
       => (/\ "archived" \in schema'.accounts_cols
           /\ \A r \in accounts' : r.archived = 0)]_vars

\* C3: after init_db has returned, whatever the database it started from, an
\* account row with id 1 exists.
C3_DefaultAccountSeeded == initialized => 1 \in Ids(accounts)

\* C4: init_db on a transactions table without the account_id column adds
\* the column, gives every transaction account_id = 1, keeps its other
\* fields, and adds or removes no transaction.
C4_LegacyTransactionsMigrated ==
    [][(/\ last'.op = "init_db"
        /\ "transactions" \in schema.tables
        /\ "account_id" \notin schema.transactions_cols)
       => (/\ "account_id" \in schema'.transactions_cols
           /\ Cardinality(transactions') = Cardinality(transactions)
           /\ \A t \in transactions :
                \E u \in transactions' :
                    /\ u.id = t.id
                    /\ u.account_id = 1
                    /\ u.date = t.date
                    /\ u.direction = t.direction
                    /\ u.amount_cents = t.amount_cents
                    /\ u.category = t.category
                    /\ u.note = t.note)]_vars

\* C4 witness: init_db has just run on a legacy transactions table (the only
\* tables without the foreign key) that held a row, now of account 1.
C4_Witness ==
    /\ last.op = "init_db"
    /\ ~schema.fk
    /\ transactions # {}
    /\ \A t \in transactions : t.account_id = 1

\* C5: init_db run again, on any database reached by init_db and repository
\* calls, changes neither the account rows nor the transaction rows nor the
\* schema.
C5_InitDbIdempotent ==
    [][(initialized /\ last'.op = "init_db")
       => (TablesUnchanged /\ schema' = schema)]_vars

\* C6: delete_account(id), id other than 1: NotFound when no account has the
\* id; HasTransactions when the account owns a transaction, account and
\* transactions staying; otherwise it succeeds and removes that account row
\* and nothing else.
C6_DeleteAccount ==
    [][(last'.op = "delete_account" /\ last'.account_id # 1)
       => LET id == last'.account_id
              owned == {t \in transactions : t.account_id = id}
          IN  /\ id \notin Ids(accounts)
                 => (last'.result \in NotFound /\ TablesUnchanged)
              /\ (id \in Ids(accounts) /\ owned # {})
                 => (last'.result = HasTransactions /\ TablesUnchanged)
              /\ (id \in Ids(accounts) /\ owned = {})
                 => (/\ last'.result = OK
                     /\ accounts' = {r \in accounts : r.id # id}
                     /\ Cardinality(accounts') = Cardinality(accounts) - 1
                     /\ transactions' = transactions)]_vars

\* C6 witness: delete_account has just removed an account other than 1 while
\* a transaction of another account is stored.
C6_Witness ==
    /\ last.op = "delete_account"
    /\ last.account_id # 1
    /\ last.result = OK
    /\ last.account_id \notin Ids(accounts)
    /\ transactions # {}

\* C7: delete_txn(id, accountId) returns without error; it removes the
\* transaction with that id when its account_id is accountId and then the
\* transaction is in no list_txns result and its amount is gone from the
\* get_summary totals; otherwise no transaction is removed or changed.
C7_DeleteTxn ==
    [][last'.op = "delete_txn"
       => LET id == last'.txn_id
              acc == last'.account_id
              hit == {t \in transactions : t.id = id /\ t.account_id = acc}
              share(a, s, e, direction) ==
                  sum_amount_cents(
                      {t \in hit : /\ a = acc
                                   /\ t.direction = direction
                                   /\ text_leq(s, t.date)
                                   /\ text_leq(t.date, e)})
          IN  /\ last'.result = OK
              /\ accounts' = accounts
              /\ Cardinality(hit) <= 1
              /\ transactions' = transactions \ hit
              /\ hit # {}
                 => \A a \in AccountIds, s \in RangeBounds, e \in RangeBounds :
                       LET before == get_summary(a, s, e)
                           after == get_summary(a, s, e)'
                           listed == list_txns(a, s, e)'
                       IN  /\ \A i \in 1..Len(listed) : listed[i].id # id
                           /\ after.income_cents =
                                 before.income_cents - share(a, s, e, "income")
                           /\ after.expense_cents =
                                 before.expense_cents
                                     - share(a, s, e, "expense")]_vars

\* C7 witness: delete_txn has just been called with the id of a transaction
\* of another account, which is still stored, after an earlier delete_txn
\* removed a transaction.
C7_Witness ==
    /\ last.op = "delete_txn"
    /\ \E t \in transactions :
          t.id = last.txn_id /\ t.account_id # last.account_id
    /\ \E i \in 1..transactions_seq : i \notin Ids(transactions)

\* The name with the spaces at its two ends removed.
Trimmed(name) ==
    CHOOSE n \in {SubSeq(name, i, j) : i \in 1..Len(name) + 1, j \in 0..Len(name)} :
        /\ \E i \in 1..Len(name) + 1, j \in 0..Len(name) :
              /\ n = SubSeq(name, i, j)
              /\ \A k \in 1..Len(name) : (k < i \/ k > j) => name[k] = " "
        /\ n # <<>> => (n[1] # " " /\ n[Len(n)] # " ")

\* The outcome o of a call leaves every row as it was.
Untouched(o) == o.accounts = accounts /\ o.transactions = transactions

\* C8: create_account(name) fails with InvalidInput when the trimmed name is
\* empty and with DuplicateName when the trimmed name is the name of an
\* existing account (compared case-sensitively); otherwise it adds one
\* account, not archived, with the trimmed name and returns its id, greater
\* than 1 and the id of no other account. Account names stay pairwise
\* distinct and non-empty.
C8_CreateAccount ==
    initialized
    => /\ \A name \in Names :
            LET o == create_account(name)
                n == Trimmed(name)
            IN  IF n = <<>> THEN o.result \in InvalidInput /\ Untouched(o)
                ELSE IF \E r \in accounts : r.name = n
                     THEN o.result \in DuplicateName /\ Untouched(o)
                ELSE /\ o.result = OK
                     /\ o.ret > 1
                     /\ o.ret \notin Ids(accounts)
                     /\ \E r \in o.accounts :
                           /\ r.id = o.ret /\ r.name = n /\ r.archived # 1
                           /\ o.accounts = accounts \cup {r}
                     /\ o.transactions = transactions
       /\ \A r1, r2 \in accounts : r1.name = r2.name => r1 = r2
       /\ \A r \in accounts : r.name # <<>>

\* C8 witness: create_account has just added an account whose name differs
\* from an existing one only by case.
C8_Witness ==
    /\ last.op = "create_account"
    /\ last.result = OK
    /\ \E r1, r2 \in accounts :
          /\ r1.id = last.ret
          /\ r1.name = <<"d">>
          /\ r2.name = <<"D">>

\* What rename_account(id, name) does when a collision is a match with one
\* of the accounts in others(id).
RenameAs(others(_)) ==
    initialized
    => \A id \in AccountIds, name \in Names :
          LET o == rename_account(id, name)
              n == Trimmed(name)
          IN  IF n = <<>> THEN o.result \in InvalidInput /\ Untouched(o)
              ELSE IF id \notin Ids(accounts)
                   THEN o.result \in NotFound /\ Untouched(o)
              ELSE IF \E r \in others(id) : r.name = n
                   THEN o.result \in DuplicateName /\ Untouched(o)
              ELSE /\ o.result = OK
                   /\ o.accounts =
                         {IF r.id = id THEN [r EXCEPT !.name = n] ELSE r :
                             r \in accounts}
                   /\ Ids(o.accounts) = Ids(accounts)
                   /\ \A r \in o.accounts :
                         r.archived = Row(accounts, r.id).archived
                   /\ o.transactions = transactions

AllAccounts(id) == accounts
OtherAccounts(id) == {r \in accounts : r.id # id}

\* C9 as stated: rename_account(id, name) fails with InvalidInput when the
\* trimmed name is empty, else NotFound when no account has the id, else
\* DuplicateName when the trimmed name is the name of an existing account;
\* a failure changes no row; otherwise it sets that account's name to the
\* trimmed name and changes nothing else.
C9_RenameAccount_AsStated == RenameAs(AllAccounts)

\* C9 as amended: the same, where DuplicateName is raised when the trimmed
\* name is the name of another account; renaming an account to the name it
\* already has succeeds.
C9_RenameAccount == RenameAs(OtherAccounts)

\* C9 witness: rename_account has just renamed one of several accounts.
C9_Witness ==
    /\ last.op = "rename_account"
    /\ last.result = OK
    /\ Cardinality(accounts) > 1

\* C10: the archived flag of an account changes only by a successful
\* archive_account (false to true) or restore_account (true to false);
\* archive_account(id) fails with Protected if id is 1, else NotFound if the
\* account is absent, else AlreadyArchived if it is archived;
\* restore_account(id) fails with NotFound if absent, else NotArchived if it
\* is not archived; a failed call changes nothing; a successful call changes
\* the flag of that account alone, so that archive then restore gives the
\* earlier rows back.
C10_ArchiveRestore ==
    [][/\ \A r \in accounts, u \in accounts' :
            (r.id = u.id /\ r.archived # u.archived)
            => /\ last'.account_id = r.id
               /\ last'.result = OK
               /\ \/ /\ last'.op = "archive_account"
                     /\ r.archived = 0 /\ u.archived = 1
                  \/ /\ last'.op = "restore_account"
                     /\ r.archived = 1 /\ u.archived = 0
       /\ last'.op = "archive_account"
          => LET id == last'.account_id
             IN  /\ last'.result =
                       IF id = 1 THEN DefaultNotArchivable
                       ELSE IF id \notin Ids(accounts) THEN AccountNotFound
                       ELSE IF Row(accounts, id).archived = 1
                            THEN AlreadyArchived
                       ELSE OK
                 /\ last'.result # OK => TablesUnchanged
                 /\ last'.result = OK
                    => /\ accounts' =
                             {IF r.id = id THEN [r EXCEPT !.archived = 1]
                              ELSE r : r \in accounts}
                       /\ transactions' = transactions
       /\ last'.op = "restore_account"
          => LET id == last'.account_id
             IN  /\ last'.result =
                       IF id \notin Ids(accounts) THEN AccountNotFound
                       ELSE IF Row(accounts, id).archived # 1 THEN NotArchived
                       ELSE OK
                 /\ last'.result # OK => TablesUnchanged
                 /\ last'.result = OK
                    => /\ accounts' =
                             {IF r.id = id THEN [r EXCEPT !.archived = 0]
                              ELSE r : r \in accounts}
                       /\ transactions' = transactions]_vars

\* The day a date text of two digits names.
DateValue(d) == 10 * d[1] + d[2]

\* The elements of a sequence.
Range(seq) == {seq[i] : i \in 1..Len(seq)}

\* The sum of amount_cents over the entries of a sequence.
RECURSIVE Total(_)
Total(seq) ==
    IF seq = <<>> THEN 0 ELSE Head(seq).amount_cents + Total(Tail(seq))

\* C11: get_summary(accountId, start, end) returns income_cents equal to the
\* sum of amount_cents over the income rows list_txns returns for the same
\* account and range, expense_cents the same sum over its expense rows (0
\* when there is none), and by_category with one entry per category that has
\* an expense row in the range, carrying the summed expense amount, ordered
\* by summed amount descending and then by category name ascending; the
\* by_category amounts add up to expense_cents.
C11_GetSummary ==
    initialized
    => \A a \in AccountIds, s \in RangeBounds, e \in RangeBounds :
          LET listed == list_txns(a, s, e)
              summary == get_summary(a, s, e)
              by == summary.by_category
              incomes == SelectSeq(listed, LAMBDA t : t.direction = "income")
              expenses == SelectSeq(listed, LAMBDA t : t.direction = "expense")
              of_category(c) == SelectSeq(expenses, LAMBDA t : t.category = c)
          IN  /\ summary.income_cents = Total(incomes)
              /\ summary.expense_cents = Total(expenses)
              /\ {g.category : g \in Range(by)}
                    = {t.category : t \in Range(expenses)}
              /\ \A i, j \in 1..Len(by) :
                    i < j
                    => \/ by[i].amount_cents > by[j].amount_cents
                       \/ /\ by[i].amount_cents = by[j].amount_cents
                          /\ by[i].category # by[j].category
                          /\ text_leq(by[i].category, by[j].category)
              /\ \A i \in 1..Len(by) :
                    by[i].amount_cents = Total(of_category(by[i].category))
              /\ Total(by) = summary.expense_cents

\* C11 witness: a summary whose first category is the later one by name and
\* totals two rows, each smaller than the single row of the other category.
C11_Witness ==
    /\ initialized
    /\ \E a \in AccountIds, s \in RangeBounds, e \in RangeBounds :
          LET by == get_summary(a, s, e).by_category
          IN  /\ Len(by) = 2
              /\ by[1].category = <<18>>
              /\ by[1].amount_cents = 6
              /\ by[2].amount_cents = 5
              /\ Len(list_txns(a, s, e)) = 3

\* C12: list_txns(accountId, start, end) returns exactly the stored
\* transactions of account accountId whose date d has start <= d <= end, both
\* ends included, each once, ordered by date descending and, for equal
\* dates, by id descending; a transaction just created comes before every
\* other transaction of its day; transactions of other accounts never appear.
C12_ListTxns ==
    /\ [](initialized
          => \A a \in AccountIds, s \in RangeBounds, e \in RangeBounds :
                LET listed == list_txns(a, s, e)
                    wanted == {t \in transactions :
                                  /\ t.account_id = a
                                  /\ DateValue(s) <= DateValue(t.date)
                                  /\ DateValue(t.date) <= DateValue(e)}
                IN  /\ Range(listed) = wanted
                    /\ Len(listed) = Cardinality(wanted)
                    /\ \A i, j \in 1..Len(listed) :
                          i < j
                          => \/ DateValue(listed[i].date)
                                   > DateValue(listed[j].date)
                             \/ /\ listed[i].date = listed[j].date
                                /\ listed[i].id > listed[j].id)
    /\ [][(last'.op = "create_txn" /\ last'.result = OK)
          => \A a \in AccountIds, s \in RangeBounds, e \in RangeBounds :
                LET listed == list_txns(a, s, e)'
                IN  \A i, j \in 1..Len(listed) :
                       (/\ a = last'.account_id
                        /\ listed[j].id = last'.ret
                        /\ listed[j].id \notin Ids(transactions)
                        /\ listed[i].date = listed[j].date
                        /\ i # j)
                       => j < i]_vars

\* C12 witness: create_txn has just stored the second transaction of a day in
\* an account, and a range with that day as its first or last day lists both,
\* the new one first.
C12_Witness ==
    /\ last.op = "create_txn"
    /\ last.result = OK
    /\ \E s \in LedgerDates, e \in LedgerDates :
          LET listed == list_txns(last.account_id, s, e)
          IN  /\ Len(listed) = 2
              /\ listed[1].id = last.ret
              /\ listed[1].date = listed[2].date
              /\ listed[1].date \in {s, e}

\* The number a digit text writes, digit by digit.
NumberOf(ds) ==
    LET RECURSIVE upto(_)
        upto(k) == IF k = 0 THEN 0
                   ELSE upto(k - 1)
                        + (IF ds[k] = "1" THEN 1 ELSE 0) * pow10(Len(ds) - k)
    IN  upto(Len(ds))

DigitTexts == UNION {[1..n -> DigitChars] : n \in 0..MaxAmountLen}

\* The ways to read text s, blanks at its ends aside, as a decimal number:
\* an optional minus sign, integer digits i and, after an optional point,
\* fraction digits f, with a digit somewhere.
Numerals(s) ==
    LET t == Trimmed(s)
        minus == t # <<>> /\ t[1] = "-"
        u == IF minus THEN SubSeq(t, 2, Len(t)) ELSE t
    IN  {[minus |-> minus, i |-> i, f |-> f] :
            <<i, f>> \in {p \in DigitTexts \X DigitTexts :
                            /\ p[1] \o p[2] # <<>>
                            /\ \/ u = p[1] \o <<".">> \o p[2]
                               \/ u = p[1] /\ p[2] = <<>>}}

\* C13: for every text s, parse_amount_to_cents either returns an integer
\* c >= 0 equal to 100 times the number s writes, which happens exactly when
\* s writes a non-negative decimal number whose hundredfold is an integer
\* (at most 2 fractional digits), or fails with the InvalidInput error and
\* with no other failure.
C13_ParseAmountToCents ==
    [][last'.op = "parse_amount_to_cents"
       => LET amounts ==
                  {n \in Numerals(last'.text) :
                      /\ ~(n.minus /\ NumberOf(n.i \o n.f) # 0)
                      /\ (100 * NumberOf(n.i \o n.f)) % pow10(Len(n.f)) = 0}
          IN  IF amounts # {}
              THEN /\ last'.result = OK
                   /\ last'.ret >= 0
                   /\ \A n \in amounts :
                         last'.ret * pow10(Len(n.f))
                            = 100 * NumberOf(n.i \o n.f)
              ELSE last'.result \in InvalidInput]_vars

\* C14: every stored transaction has amount_cents >= 0 and direction
\* "income" or "expense"; create_txn called with another direction or with a
\* negative amount fails and stores nothing; validate_direction accepts
\* exactly those two strings, told apart by case, and returns them
\* unchanged; no step changes the date, direction, amount_cents, category or
\* note of a stored transaction, nor its account_id once it has one.
C14_TransactionInvariants ==
    /\ [](\A t \in transactions :
             t.amount_cents >= 0 /\ t.direction \in {"income", "expense"})
    /\ [](initialized
          => \A account_id \in AccountIds, date_str \in Dates,
                direction \in DirectionInputs \cup Directions,
                amount_cents \in AmountInputs, category \in Categories,
                note \in Notes :
                LET o == create_txn(account_id, date_str, direction,
                                    amount_cents, category, note)
                IN  (direction \notin {"income", "expense"}
                        \/ amount_cents < 0)
                    => (o.result # OK /\ Untouched(o)))
    /\ [](\A s \in DirectionTexts :
             LET o == validate_direction(s)
             IN  IF s = "income" \/ s = "expense"
                 THEN o.result = OK /\ o.ret = s
                 ELSE o.result \in InvalidInput)
    /\ [][\A t \in transactions, u \in transactions' :
             t.id = u.id
             => /\ u.date = t.date
                /\ u.direction = t.direction
                /\ u.amount_cents = t.amount_cents
                /\ u.category = t.category
                /\ u.note = t.note
                /\ t.account_id # NULL => u.account_id = t.account_id]_vars

\* C14 witness: create_txn has just failed on a CHECK constraint (the table
\* has no foreign key that could have failed) while a transaction is stored.
C14_Witness ==
    /\ last.op = "create_txn"
    /\ last.result = IntegrityError
    /\ ~schema.fk
    /\ transactions # {}

RouteOps == {"create_transaction", "delete_transaction"}

\* C15: a create-transaction or delete-transaction request naming an account
\* that is archived at that moment ends in an error and leaves the
\* transactions as they were; once restore_account has restored the
\* account, a well-formed create-transaction request for it adds a
\* transaction to it and a delete-transaction request removes the
\* transaction it names.
C15_ArchivedReadOnly ==
    /\ [][(/\ last'.op \in RouteOps
           /\ \E r \in accounts : r.id = last'.account_id /\ r.archived = 1)
          => (last'.result # OK /\ transactions' = transactions)]_vars
    /\ []((last.op = "restore_account" /\ last.result = OK)
          => /\ \A date \in Dates, direction \in Directions,
                  amount \in {<<"1">>, <<".", "1">>},
                  category \in RouteCategories, note \in Notes :
                  LET o == create_transaction(date, direction, amount,
                                              category, note, last.account_id)
                  IN  /\ o.result = OK
                      /\ \E t \in o.transactions :
                            /\ t.id = o.ret
                            /\ t.account_id = last.account_id
                            /\ o.transactions = transactions \cup {t}
                            /\ t \notin transactions
             /\ \A txn_id \in TxnIds :
                  LET o == delete_transaction(txn_id, last.account_id)
                  IN  /\ o.result = OK
                      /\ o.transactions =
                            {t \in transactions :
                                ~(t.id = txn_id
                                  /\ t.account_id = last.account_id)})

\* C15 witness: a transaction request has just been refused because the
\* account it names is archived, while the account owns a transaction.
C15_Witness ==
    /\ last.op \in RouteOps
    /\ last.result = ArchivedReadOnly
    /\ \E r \in accounts : r.id = last.account_id /\ r.archived = 1
    /\ \E t \in transactions : t.account_id = last.account_id

\* What C18 says of _resolve_account_id, in a database that is usable.
ResolveReturns(usable) ==
    (initialized /\ usable)
    => \A requested \in RouteAccountIds \cup {NULL},
          show_archived \in BOOLEAN :
          LET o == _resolve_account_id(requested, show_archived)
          IN  /\ o.result = OK
              /\ o.ret \in Ids(accounts)
              /\ o.ret =
                    IF /\ requested >= 1
                       /\ \E r \in accounts :
                             /\ r.id = requested
                             /\ r.archived # 1 \/ show_archived
                    THEN requested ELSE 1

\* What C18 says of a step of the transaction routes from a database that is
\* usable.
RoutesFallBack(usable) ==
    (/\ usable
     /\ last'.op \in RouteOps
     /\ last'.account_id \notin Ids(accounts)
     /\ last'.result = OK)
    => /\ \A t \in transactions' \ transactions : t.account_id = 1
       /\ \A t \in transactions \ transactions' :
             t.account_id = 1 /\ t.id = last'.txn_id
       /\ last'.op = "create_transaction" => transactions' # transactions

\* The accounts table has the archived column and holds account 1.
UsableDatabase ==
    "archived" \in schema.accounts_cols /\ 1 \in Ids(accounts)

\* C18: _resolve_account_id(requested, show_archived) returns the id of an
\* account that exists: the requested id when it is at least 1, names an
\* existing account and that account is not archived or show_archived is
\* true, and 1 in every other case; a create or delete transaction request
\* naming a non-existent account is applied to account 1.
C18_ResolveAccountId ==
    /\ [](ResolveReturns(TRUE))
    /\ [][RoutesFallBack(TRUE)]_vars

\* C18 in the databases whose accounts table has the archived column and
\* holds account 1.
C18_ResolveAccountId_UsableDatabase ==
    /\ [](ResolveReturns(UsableDatabase))
    /\ [][RoutesFallBack(UsableDatabase)]_vars

\* The calls of repo.py.
RepoOps ==
    {"create_account", "rename_account", "delete_account", "archive_account",
     "restore_account", "create_txn", "delete_txn"}

\* The transaction of every connection the last call opened is finished:
\* committed when the call returned, rolled back when it raised.
TransactionsFinished ==
    \A c \in connections :
        /\ ~c.in_transaction
        /\ c.ended = IF last.result = OK THEN "commit" ELSE "rollback"

\* C16: when a repository operation has returned or raised, the connection
\* it opened is closed and its transaction is finished, committed on success
\* and rolled back on failure.
C16_ConnectionsReleased ==
    last.op \in RepoOps
    => (TransactionsFinished /\ \A c \in connections : c.closed)

\* The part of C16 about transactions alone.
C16_TransactionsFinished == last.op \in RepoOps => TransactionsFinished

\* Every transaction's account_id is the id of an account.
AccountsExist(txns, accs) == \A t \in txns : t.account_id \in Ids(accs)

\* What C17 says of a database that is covered.
ReferentialIntegrity(covered) ==
    (initialized /\ covered) => AccountsExist(transactions, accounts)

\* What C17 says of a step from a database that is covered: the rows it
\* stores name an account, and no transaction names an account it removes.
ReferencesKept(covered) ==
    (initialized /\ covered)
    => /\ AccountsExist(transactions' \ transactions, accounts)
       /\ \A r \in accounts \ accounts' :
             \A t \in transactions' : t.account_id # r.id

\* C17: in a database initialised by init_db, created fresh or migrated from
\* a legacy layout, under any interleaving of create_txn, delete_txn and
\* delete_account calls, every transaction's account_id is the id of an
\* existing account: create_txn stores no row for a non-existent account
\* and delete_account removes no account that a transaction refers to.
C17_ReferentialIntegrity ==
    /\ [](ReferentialIntegrity(TRUE))
    /\ [][ReferencesKept(TRUE)]_vars

\* C17 in the databases whose transactions table declares the foreign key
\* (created by init_db, not migrated).
C17_ReferentialIntegrity_ForeignKey ==
    /\ [](ReferentialIntegrity(schema.fk))
    /\ [][ReferencesKept(schema.fk)]_vars

====
